---- MODULE Spec2Model ----
(***************************************************************************)
(* EduToon: the story requester, the scene-image requester with bounded    *)
(* retry, the webtoon compositor and the generation run of the enhanced    *)
(* app (src/app_enhanced.py, src/utils.py, src/config.py), and the         *)
(* requester, the compositor and the generation run of the basic app       *)
(* (src/app.py).                                                           *)
(*                                                                         *)
(* Values that come out of json.loads are kept with their Python type:     *)
(* a value is a record [t |-> type, v |-> content], where a dict's content *)
(* is a function from its keys to values and a list's content a sequence.  *)
(***************************************************************************)
EXTENDS Integers, Sequences, FiniteSets, TLC

VARIABLES
    client,         \* generator.client is set (TRUE) or None (FALSE)
    pc,             \* position of main() in the current script run
    runs,           \* generation requests started so far
    auto_save,      \* the auto-save checkbox of the current run
    story_error,    \* the st.error of the story requester in the current run
    story_data,     \* main()'s local story_data
    scene_images,   \* main()'s local scene_images
    webtoon_image,  \* main()'s local webtoon_image
    scene_idx,      \* i of "for i, scene in enumerate(scenes)"
    attempt,        \* attempt of the retry loop of the current requester call
    events,         \* the current requester call: each endpoint call by its
                    \* outcome, each time.sleep(retry_delay) as "delay"
    text_calls,     \* text-endpoint calls of the current run
    scene_sleeps,   \* time.sleep(1) calls between scenes in the current run
    saves,          \* save_generated_content calls of the current run
    session,        \* st.session_state: a function from its keys to values
    notices,        \* the st.warning, st.error and st.success notices of the stage
                    \* in progress: the current requester call, or the save
    log,            \* the current run: its calls and its time.sleep delays, in
                    \* the order they were made
    clock,          \* datetime.now(), in whole seconds
    disk,           \* the output directory: each run directory with its files
    arg,            \* the argument of a function called on its own
    ret,            \* its result
    prompt,         \* the requester's local prompt
    reference_images,   \* the requester's local reference_images
    sent            \* the contents of every image-endpoint call of the requester

vars == <<client, pc, runs, auto_save, story_error, story_data, scene_images,
          webtoon_image, scene_idx, attempt, events, text_calls, scene_sleeps,
          saves, session, notices, log, clock, disk, arg, ret,
          prompt, reference_images, sent>>

pipeline_vars == <<client, pc, runs, auto_save, story_error, story_data,
                   scene_images, webtoon_image, scene_idx, attempt, events,
                   text_calls, scene_sleeps, saves, session, notices, log>>

disk_vars == <<clock, disk>>

requester_vars == <<prompt, reference_images, sent>>

----------------------------------------------------------------------------
(* Bounds of the model *)

MaxScenes == 2          \* scenes of an outline in a generation run
MaxRuns == 2            \* generation requests in one session
MaxListLen == 2         \* scenes of a payload given to the story requester
MaxLayoutScenes == 3    \* scenes and images given to the compositor alone
MaxSaves == 2           \* calls of save_generated_content on its own
MaxClock == 1           \* seconds the clock advances while they are made
MaxSaveImages == 2      \* images given to save_generated_content on its own
MaxParts == 3           \* parts of one response of the image endpoint
MaxCharacters == 2      \* names in the characters list of a scene
MaxAssets == 2          \* asset files of a character

----------------------------------------------------------------------------
(* src/config.py *)

panel_width == 800
panel_height == 600
padding == 20
title_height == 100
min_scenes == 3
default_scenes == 6
max_retries == 3

----------------------------------------------------------------------------
(* Python values *)

Str(s) == [t |-> "str", v |-> s]
Num(n) == [t |-> "num", v |-> n]
List(s) == [t |-> "list", v |-> s]
Dict(f) == [t |-> "dict", v |-> f]
Null == [t |-> "none", v |-> "None"]

EmptyDict == Dict([k \in {} |-> Null])

IsDict(x) == x.t = "dict"
IsList(x) == x.t = "list"
IsStr(x) == x.t = "str"
HasKey(d, k) == k \in DOMAIN d.v

\* Python truthiness of a value: None, "", 0, [] and {} are falsy
Truthy(x) ==
    CASE x.t = "none" -> FALSE
      [] x.t = "str" -> x.v # ""
      [] x.t = "num" -> x.v # 0
      [] x.t = "list" -> Len(x.v) > 0
      [] x.t = "dict" -> DOMAIN x.v # {}
      [] OTHER -> TRUE

----------------------------------------------------------------------------
(* Images *)

\* None in a list of images
NoImage ==
    [kind |-> "none", width |-> 0, height |-> 0, message |-> "", scene |-> 0,
     attempt |-> 0]

\* the image decoded from the response of one endpoint call
GeneratedImage(w, h, scene, att) ==
    [kind |-> "generated", width |-> w, height |-> h, message |-> "",
     scene |-> scene, attempt |-> att]

\* utils.create_error_image: Image.new('RGB', (width, height)) with the message drawn
create_error_image(width, height, message) ==
    [kind |-> "placeholder", width |-> width, height |-> height,
     message |-> message, scene |-> 0, attempt |-> 0]

\* "if img:" on an element of scene_images
ImagePresent(img) == img.kind # "none"

----------------------------------------------------------------------------
(* utils.validate_story_data *)

\* a faulty variant: concept is not asked for
required_fields_no_concept == <<"title", "scenes">>

required_fields == <<"title", "concept", "scenes">>

required_scene_fields ==
    <<"scene_number", "location", "characters", "dialogue", "action",
      "educational_point", "visual_description">>

\* a faulty variant: the characters check of line 264 left out
ValidSceneNoListCheck(scene) ==
    /\ IsDict(scene)
    /\ \A n \in 1..Len(required_scene_fields) : HasKey(scene, required_scene_fields[n])

\* the body of "for scene in scenes" for one scene: TRUE when no return False is taken
ValidScene(scene) ==
    IF ~IsDict(scene) THEN FALSE
    ELSE IF \E n \in 1..Len(required_scene_fields) :
                ~HasKey(scene, required_scene_fields[n]) THEN FALSE
    ELSE IF ~IsList(scene.v["characters"]) THEN FALSE
    ELSE TRUE

RECURSIVE ValidScenesFrom(_, _)
ValidScenesFrom(scenes, n) ==
    IF n > Len(scenes) THEN TRUE
    ELSE IF ~ValidScene(scenes[n]) THEN FALSE
    ELSE ValidScenesFrom(scenes, n + 1)

validate_story_data(data) ==
    IF ~IsDict(data) THEN FALSE
    ELSE IF \E n \in 1..Len(required_fields) : ~HasKey(data, required_fields[n]) THEN FALSE
    ELSE LET scenes == data.v["scenes"] IN
         IF ~IsList(scenes) \/ Len(scenes.v) = 0 THEN FALSE
         ELSE ValidScenesFrom(scenes.v, 1)

----------------------------------------------------------------------------
(* The text endpoint's response and json.loads *)

\* response.text: "" or None, text that is no JSON document, or the text of a document
EmptyText == [form |-> "empty"]
MalformedText == [form |-> "malformed"]
JsonText(doc) == [form |-> "json", doc |-> doc]

\* json.loads(text): the parsed document, or JSONDecodeError
json_loads(text) ==
    IF text.form = "json" THEN [raised |-> FALSE, value |-> text.doc]
    ELSE [raised |-> TRUE, value |-> Null]

\* the text endpoint raises, or answers with a text
RaisedResponse == [kind |-> "raise"]
TextResponse(text) == [kind |-> "text", text |-> text]

\* a faulty variant: the payload is returned without the validate_story_data check
generate_educational_story_unchecked(has_client, response) ==
    IF ~has_client THEN [value |-> Null, requests |-> 0, error |-> "client"]
    ELSE IF response.kind = "raise" THEN [value |-> Null, requests |-> 1, error |-> "exception"]
    ELSE IF response.text.form = "empty" THEN [value |-> Null, requests |-> 1, error |-> "empty"]
    ELSE LET parsed == json_loads(response.text) IN
         IF parsed.raised THEN [value |-> Null, requests |-> 1, error |-> "parse"]
         ELSE [value |-> parsed.value, requests |-> 1, error |-> "none"]

\* EnhancedWebtoonGenerator.generate_educational_story: the value returned, the
\* number of text requests made and which st.error was shown
generate_educational_story(has_client, response) ==
    IF ~has_client THEN [value |-> Null, requests |-> 0, error |-> "client"]
    ELSE IF response.kind = "raise" THEN [value |-> Null, requests |-> 1, error |-> "exception"]
    ELSE IF response.text.form = "empty" THEN [value |-> Null, requests |-> 1, error |-> "empty"]
    ELSE LET parsed == json_loads(response.text) IN
         IF parsed.raised THEN [value |-> Null, requests |-> 1, error |-> "parse"]
         ELSE IF ~validate_story_data(parsed.value)
              THEN [value |-> Null, requests |-> 1, error |-> "invalid"]
         ELSE [value |-> parsed.value, requests |-> 1, error |-> "none"]

----------------------------------------------------------------------------
(* The payloads the text endpoint is taken to answer with *)

TopKeys == {"title", "concept", "target_age", "scenes"}

SceneKeys == {required_scene_fields[n] : n \in 1..Len(required_scene_fields)}

\* a characters value: a list of names, an empty list, a list holding a number,
\* a bare string, null
CharacterValues ==
    {List(<<Str("Fox")>>), List(<<>>), List(<<Num(7)>>), Str("Fox"), Null}

SceneWith(keys, chars) ==
    Dict([k \in keys |->
            CASE k = "characters" -> chars
              [] k = "scene_number" -> Num(1)
              [] OTHER -> Str(k)])

GoodScene == SceneWith(SceneKeys, List(<<Str("Fox")>>))
SceneNoPoint == SceneWith(SceneKeys \ {"educational_point"}, List(<<Str("Fox")>>))
SceneCharsNotList == SceneWith(SceneKeys, Str("Fox"))

AllScenes ==
    {SceneWith(keys, c) : keys \in SUBSET SceneKeys, c \in CharacterValues}
        \cup {Str("scene"), Null}

SampleScenes == {GoodScene, SceneNoPoint, SceneCharsNotList, Null}

SceneLists ==
    {<<>>} \cup {<<s>> : s \in AllScenes}
        \cup UNION {[1..n -> SampleScenes] : n \in 2..MaxListLen}

ScenesValues == {List(l) : l \in SceneLists} \cup {Str("scenes"), Null, EmptyDict}

TitleValues == {Str("The water cycle"), Null}

PayloadWith(keys, title, scenes) ==
    Dict([k \in keys |->
            CASE k = "title" -> title
              [] k = "scenes" -> scenes
              [] OTHER -> Str(k)])

Payloads ==
    {PayloadWith(keys, tl, sc) :
        keys \in SUBSET TopKeys, tl \in TitleValues, sc \in ScenesValues}
        \cup {List(<<>>), Str("story"), Num(0), Null}

MinimalPayload ==
    PayloadWith({"title", "concept", "scenes"}, Str("The water cycle"), List(<<GoodScene>>))

StoryResponses ==
    {RaisedResponse, TextResponse(EmptyText), TextResponse(MalformedText)}
        \cup {TextResponse(JsonText(p)) : p \in Payloads}

----------------------------------------------------------------------------
(* The generation run at rest: what the function-level specifications leave alone *)

NoSession == [k \in {} |-> Null]

PipelineAtRest ==
    /\ client = TRUE
    /\ pc = "idle"
    /\ runs = 0
    /\ auto_save = FALSE
    /\ story_error = "none"
    /\ story_data = Null
    /\ scene_images = <<>>
    /\ webtoon_image = NoImage
    /\ scene_idx = 0
    /\ attempt = 0
    /\ events = <<>>
    /\ text_calls = 0
    /\ scene_sleeps = 0
    /\ saves = 0
    /\ session = NoSession
    /\ notices = <<>>
    /\ log = <<>>

\* a directory without files, and an output directory without run directories
EmptyDirectory == [f \in {} |-> Null]
EmptyDisk == [d \in {} |-> EmptyDirectory]

DiskAtRest ==
    /\ clock = 0
    /\ disk = EmptyDisk

\* no prompt built yet
NoPrompt == [template |-> "none"]

RequesterAtRest ==
    /\ prompt = NoPrompt
    /\ reference_images = <<>>
    /\ sent = <<>>

NotCalled == [done |-> FALSE]
Returned(out) == [done |-> TRUE, out |-> out]

----------------------------------------------------------------------------
(* validate_story_data called on its own *)

InitValidate ==
    /\ PipelineAtRest
    /\ DiskAtRest
    /\ RequesterAtRest
    /\ arg \in Payloads
    /\ ret = NotCalled

CallValidate ==
    /\ ~ret.done
    /\ ret' = Returned(validate_story_data(arg))
    /\ UNCHANGED <<arg, pipeline_vars, disk_vars, requester_vars>>

SpecValidate == InitValidate /\ [][CallValidate]_vars

----------------------------------------------------------------------------
(* generate_educational_story called on its own *)

\* the scene counts asked for: the lowest of the form's slider and its default
SceneCounts == {min_scenes, default_scenes}

InitStory ==
    /\ PipelineAtRest
    /\ DiskAtRest
    /\ RequesterAtRest
    /\ arg \in {[has_client |-> c, response |-> r, num_scenes |-> n] :
                    c \in BOOLEAN, r \in StoryResponses, n \in SceneCounts}
    /\ ret = NotCalled

CallStory ==
    /\ ~ret.done
    /\ ret' = Returned(generate_educational_story(arg.has_client, arg.response))
    /\ UNCHANGED <<arg, pipeline_vars, disk_vars, requester_vars>>

SpecStory == InitStory /\ [][CallStory]_vars

----------------------------------------------------------------------------
(* EnhancedWebtoonGenerator.create_enhanced_webtoon_layout *)

NoCanvas == [raised |-> FALSE, allocated |-> FALSE, value |-> NoImage]

\* the guard of line 381
LayoutRefused(data, images) ==
    \/ ~Truthy(data)
    \/ ~HasKey(data, "scenes")
    \/ Len(images) = 0

\* faulty variants: the second padding taken into the product, and one padding
\* only as in create_webtoon_layout of app.py
TotalHeightPaddingInProduct(scenes) ==
    title_height + (panel_height + padding * 2) * Len(scenes)
TotalHeightOnePadding(scenes) ==
    title_height + (panel_height + padding) * Len(scenes) + padding

\* line 391
TotalHeight(scenes) ==
    title_height + (panel_height + padding) * Len(scenes) + padding * 2

\* line 405: story_data.get("title", "Educational Webtoon")
TitleText(data) ==
    IF HasKey(data, "title") THEN data.v["title"] ELSE Str("Educational Webtoon")

\* lines 406-410: draw.textbbox and draw.text take a string; any other value
\* makes them raise TypeError
TitleDrawn(title_text) == IsStr(title_text)

\* a faulty variant: a present image is pasted in its own size
PanelNotResized(img, n, current_y) ==
    IF ImagePresent(img)
    THEN [x |-> padding, y |-> current_y, width |-> img.width, height |-> img.height,
          of |-> img]
    ELSE [x |-> padding, y |-> current_y, width |-> panel_width,
          height |-> panel_height,
          of |-> create_error_image(panel_width, panel_height, "Scene " \o ToString(n))]

\* one round of the loop of lines 415-425: what is pasted, and where
Panel(img, n, current_y) ==
    [x |-> padding, y |-> current_y, width |-> panel_width, height |-> panel_height,
     of |-> IF ImagePresent(img) THEN img
            ELSE create_error_image(panel_width, panel_height,
                                    "Scene " \o ToString(n))]

\* the loop over zip(scenes, scene_images), from pair n on
RECURSIVE PastePanels(_, _, _, _)
PastePanels(scenes, images, n, current_y) ==
    IF n > Len(scenes) \/ n > Len(images) THEN <<>>
    ELSE <<Panel(images[n], n, current_y)>>
            \o PastePanels(scenes, images, n + 1, current_y + panel_height + padding)

create_enhanced_webtoon_layout(data, images) ==
    IF LayoutRefused(data, images) THEN NoCanvas
    ELSE LET scenes == data.v["scenes"].v
             title_text == TitleText(data)
         IN  IF ~TitleDrawn(title_text)
             THEN [raised |-> TRUE, allocated |-> TRUE, value |-> NoImage]
             ELSE [raised |-> FALSE, allocated |-> TRUE,
                   value |-> [kind |-> "canvas",
                              width |-> panel_width + 2 * padding,
                              height |-> TotalHeight(scenes),
                              title |-> title_text.v,
                              panels |-> PastePanels(scenes, images, 1,
                                                     title_height + padding)]]

----------------------------------------------------------------------------
(* create_enhanced_webtoon_layout called on its own *)

\* what a decoded image can measure
ImageSizes == {<<1024, 1024>>, <<400, 300>>}

LayoutImages ==
    {NoImage, create_error_image(panel_width, panel_height, "Image generation failed")}
        \cup {GeneratedImage(sz[1], sz[2], 1, 1) : sz \in ImageSizes}

LayoutOutlines ==
    {Null, EmptyDict, PayloadWith({"title", "concept"}, Str("The water cycle"), Null)}
        \cup {PayloadWith(keys, tl, List([n \in 1..len |-> GoodScene])) :
                keys \in {TopKeys, {"concept", "scenes"}},
                tl \in TitleValues, len \in 0..MaxLayoutScenes}

LayoutImageLists == UNION {[1..len -> LayoutImages] : len \in 0..MaxLayoutScenes}

InitLayout ==
    /\ PipelineAtRest
    /\ DiskAtRest
    /\ RequesterAtRest
    /\ arg \in {[story_data |-> d, scene_images |-> l] :
                    d \in LayoutOutlines, l \in LayoutImageLists}
    /\ ret = NotCalled

CallLayout ==
    /\ ~ret.done
    /\ ret' = Returned(create_enhanced_webtoon_layout(arg.story_data, arg.scene_images))
    /\ UNCHANGED <<arg, pipeline_vars, disk_vars, requester_vars>>

SpecLayout == InitLayout /\ [][CallLayout]_vars

----------------------------------------------------------------------------
(* json.dump to a file opened with encoding='utf-8', and json.load *)

\* a string json.loads returns for the escape of a lone surrogate; the utf-8
\* codec does not encode it
LoneSurrogate == "<U+D800>"

Utf8Encodable(s) == s # LoneSurrogate

\* the text of a document: its tokens by their JSON type
RECURSIVE json_encode(_)
json_encode(x) ==
    CASE x.t = "str" -> [j |-> "string", k |-> x.v]
      [] x.t = "num" -> [j |-> "number", k |-> x.v]
      [] x.t = "list" -> [j |-> "array", k |-> [n \in 1..Len(x.v) |-> json_encode(x.v[n])]]
      [] x.t = "dict" -> [j |-> "object", k |-> [key \in DOMAIN x.v |-> json_encode(x.v[key])]]
      [] OTHER -> [j |-> "null", k |-> "null"]

RECURSIVE json_decode(_)
json_decode(doc) ==
    CASE doc.j = "string" -> Str(doc.k)
      [] doc.j = "number" -> Num(doc.k)
      [] doc.j = "array" -> List([n \in 1..Len(doc.k) |-> json_decode(doc.k[n])])
      [] doc.j = "object" -> Dict([key \in DOMAIN doc.k |-> json_decode(doc.k[key])])
      [] OTHER -> Null

\* every string of the value, keys included, can be written to the file
RECURSIVE Encodable(_)
Encodable(x) ==
    CASE x.t = "str" -> Utf8Encodable(x.v)
      [] x.t = "list" -> \A n \in 1..Len(x.v) : Encodable(x.v[n])
      [] x.t = "dict" -> \A key \in DOMAIN x.v : Utf8Encodable(key) /\ Encodable(x.v[key])
      [] OTHER -> TRUE

\* a file whose writing was cut short by UnicodeEncodeError
Truncated == [j |-> "truncated", k |-> ""]

\* utils lines 304-306: json.dump(story_data, f, indent=2, ensure_ascii=False)
json_dump(x) ==
    IF Encodable(x) THEN [raised |-> FALSE, file |-> json_encode(x)]
    ELSE [raised |-> TRUE, file |-> Truncated]

\* json.load of a file: the value, or JSONDecodeError
json_load(file) ==
    IF file.j = "truncated" THEN [raised |-> TRUE, value |-> Null]
    ELSE [raised |-> FALSE, value |-> json_decode(file)]

----------------------------------------------------------------------------
(* utils.save_generated_content *)

\* lines 298-300: datetime.now().strftime("%Y%m%d_%H%M%S") names the second
run_directory(now) == "webtoon_" \o ToString(now)

\* a faulty variant: the files are numbered by i
scene_file_zero_based(i) == "scene_" \o ToString(i) \o ".png"

\* line 311, for the 0-based i of enumerate(images)
scene_file(i) == "scene_" \o ToString(i + 1) \o ".png"

\* the call made at second now on the output directory dsk: whether it raised,
\* the directory of lines 300-301, the path returned, the files it wrote and
\* the output directory it leaves
save_generated_content(dsk, now, story, images) ==
    LET dir == run_directory(now)
        \* story_dir.mkdir(exist_ok=True) keeps what the directory holds
        before == IF dir \in DOMAIN dsk THEN dsk[dir] ELSE EmptyDirectory
        dumped == json_dump(story)
        present == {i \in 0..(Len(images) - 1) : ImagePresent(images[i + 1])}
        written == IF dumped.raised THEN {"story_data.json"}
                   ELSE {"story_data.json"} \cup {scene_file(i) : i \in present}
        after == [f \in DOMAIN before \cup written |->
                    IF f = "story_data.json" THEN dumped.file
                    ELSE IF f \in written
                         THEN images[(CHOOSE i \in present : scene_file(i) = f) + 1]
                         ELSE before[f]]
    IN  [raised |-> dumped.raised,
         dir |-> dir,
         path |-> IF dumped.raised THEN "" ELSE "output/" \o dir,
         written |-> written,
         disk |-> [d \in DOMAIN dsk \cup {dir} |-> IF d = dir THEN after ELSE dsk[d]]]

----------------------------------------------------------------------------
(* save_generated_content called on its own, several times as the clock goes *)

\* an outline the story requester accepts whose concept holds a lone surrogate
SurrogatePayload ==
    Dict([k \in {"title", "concept", "scenes"} |->
            CASE k = "title" -> Str("The water cycle")
              [] k = "scenes" -> List(<<GoodScene>>)
              [] OTHER -> Str(LoneSurrogate)])

\* an outline with a null member and a number
NullAgePayload ==
    Dict([k \in TopKeys |->
            CASE k = "title" -> Str("The water cycle")
              [] k = "scenes" -> List(<<GoodScene, GoodScene>>)
              [] k = "target_age" -> Null
              [] OTHER -> Str(k)])

SaveStories == {NullAgePayload, SurrogatePayload}

SaveImages == {NoImage, GeneratedImage(1024, 1024, 1, 1)}

SaveImageLists == UNION {[1..len -> SaveImages] : len \in 0..MaxSaveImages}

InitSave ==
    /\ PipelineAtRest
    /\ DiskAtRest
    /\ RequesterAtRest
    /\ arg = [story_data |-> Null, images |-> <<>>]
    /\ ret = NotCalled

\* a second goes by
Tick ==
    /\ clock < MaxClock
    /\ clock' = clock + 1
    /\ UNCHANGED <<disk, arg, ret, pipeline_vars, requester_vars>>

CallSave ==
    /\ saves < MaxSaves
    /\ \E story \in SaveStories, images \in SaveImageLists :
        LET out == save_generated_content(disk, clock, story, images) IN
        /\ arg' = [story_data |-> story, images |-> images]
        /\ ret' = Returned([raised |-> out.raised, dir |-> out.dir, path |-> out.path,
                            written |-> out.written])
        /\ disk' = out.disk
    /\ saves' = saves + 1
    /\ UNCHANGED <<client, pc, runs, auto_save, story_error, story_data, scene_images,
                   webtoon_image, scene_idx, attempt, events, text_calls,
                   scene_sleeps, session, notices, log, clock, requester_vars>>

NextSave == Tick \/ CallSave

SpecSave == InitSave /\ [][NextSave]_vars

----------------------------------------------------------------------------
(* The parts of a response of the image endpoint: lines 351-364 *)

\* a part of candidates[0].content.parts: without inline_data ("text"), with
\* inline_data whose data is empty ("empty"), with data that opens after
\* base64.b64decode ("base64"), with data on which that fails and that opens as
\* it is ("raw"), with data that opens neither way ("undecodable")
PartKinds == {"text", "empty", "base64", "raw", "undecodable"}

\* the loop over the parts from part n on: the first part with data decides;
\* the second Image.open of line 363 is in no try of the loop, so its exception
\* leaves the loop for the except of line 369
RECURSIVE ImageOfParts(_, _)
ImageOfParts(parts, n) ==
    IF n > Len(parts) THEN [outcome |-> "no_image", part |-> 0]
    ELSE IF parts[n] \in {"text", "empty"} THEN ImageOfParts(parts, n + 1)
    ELSE IF parts[n] = "undecodable" THEN [outcome |-> "exception", part |-> n]
    ELSE [outcome |-> "image", part |-> n]

\* the responses: no candidate, a candidate without content or without parts
\* (the empty sequence), or the parts of the first candidate
PartLists == UNION {[1..len -> PartKinds] : len \in 0..MaxParts}

InitParts ==
    /\ PipelineAtRest
    /\ DiskAtRest
    /\ RequesterAtRest
    /\ arg \in PartLists
    /\ ret = NotCalled

CallParts ==
    /\ ~ret.done
    /\ ret' = Returned(ImageOfParts(arg, 1))
    /\ UNCHANGED <<arg, pipeline_vars, disk_vars, requester_vars>>

SpecParts == InitParts /\ [][CallParts]_vars

----------------------------------------------------------------------------
(* The generation run: main() of app_enhanced.py *)

SceneNumChars == SceneWith(SceneKeys, List(<<Num(7)>>))

\* the outlines the text endpoint answers with in a run, valid or not
RunOutlines ==
    {PayloadWith(TopKeys, tl, List(l)) :
        tl \in TitleValues,
        l \in UNION {[1..n -> {GoodScene, SceneNumChars}] : n \in 1..MaxScenes}}
    \cup {MinimalPayload,
          PayloadWith(TopKeys, Str("The water cycle"), List(<<>>)),
          PayloadWith(TopKeys \ {"scenes"}, Str("The water cycle"), Null),
          PayloadWith(TopKeys, Str("The water cycle"), List(<<GoodScene, SceneNoPoint>>)),
          PayloadWith(TopKeys, Str("The water cycle"), List(<<SceneCharsNotList>>)),
          List(<<>>)}

RunResponses ==
    {RaisedResponse, TextResponse(EmptyText), TextResponse(MalformedText)}
        \cup {TextResponse(JsonText(p)) : p \in RunOutlines}

\* what one call of the image endpoint comes to: a response with a decodable
\* image part, a response without one, or an exception
CallOutcomes == {"image", "no_image", "exception"}

Init ==
    /\ client \in BOOLEAN
    /\ pc = "start"
    /\ runs = 0
    /\ auto_save = FALSE
    /\ story_error = "none"
    /\ story_data = Null
    /\ scene_images = <<>>
    /\ webtoon_image = NoImage
    /\ scene_idx = 0
    /\ attempt = 0
    /\ events = <<>>
    /\ text_calls = 0
    /\ scene_sleeps = 0
    /\ saves = 0
    /\ session = NoSession
    /\ notices = <<>>
    /\ log = <<>>
    /\ DiskAtRest
    /\ RequesterAtRest
    /\ arg = Null
    /\ ret = NotCalled

\* lines 449-452: without a client the script stops before the form
StopWithoutClient ==
    /\ pc = "start"
    /\ ~client
    /\ pc' = "stopped"
    /\ UNCHANGED <<client, runs, auto_save, story_error, story_data, scene_images,
                   webtoon_image, scene_idx, attempt, events, text_calls,
                   scene_sleeps, saves, session, notices, log, arg, ret, disk_vars, requester_vars>>

\* the script run reaches the end with the form shown, and waits for the user
ShowForm ==
    /\ pc = "start"
    /\ client
    /\ pc' = "idle"
    /\ UNCHANGED <<client, runs, auto_save, story_error, story_data, scene_images,
                   webtoon_image, scene_idx, attempt, events, text_calls,
                   scene_sleeps, saves, session, notices, log, arg, ret, disk_vars, requester_vars>>

\* lines 597-647: the Generate button is pressed with a complete form
ClickGenerate ==
    /\ pc = "idle"
    /\ runs < MaxRuns
    /\ runs' = runs + 1
    /\ auto_save' \in BOOLEAN
    /\ pc' = "story"
    /\ UNCHANGED <<client, story_error, story_data, scene_images, webtoon_image,
                   scene_idx, attempt, events, text_calls, scene_sleeps, saves,
                   session, notices, log, arg, ret, disk_vars, requester_vars>>

\* a faulty variant: the run goes on whatever the story requester returned
StoryNeverFailed(value) == FALSE

\* line 653: "if not story_data"
StoryFailed(value) == ~Truthy(value)

\* line 664: story_data.get("scenes", [])
ScenesOf(data) == IF HasKey(data, "scenes") THEN data.v["scenes"] ELSE List(<<>>)

\* lines 665-672: the loop iterates a list of dicts and reads two keys of each;
\* anything else raises
SceneReadable(scene) ==
    /\ IsDict(scene)
    /\ HasKey(scene, "visual_description")
    /\ HasKey(scene, "characters")

\* an entry of the log of a run: what was called, and for which scene (0 when
\* the call is for no one scene)
Made(op, scene) == [op |-> op, scene |-> scene]

\* lines 649-664: the story request; a falsy result ends the run with st.stop()
StoryStage ==
    /\ pc = "story"
    /\ \E response \in RunResponses :
        LET out == generate_educational_story(client, response) IN
        /\ text_calls' = text_calls + out.requests
        /\ story_error' = out.error
        /\ IF StoryFailed(out.value)
           THEN /\ pc' = "aborted"
                /\ UNCHANGED story_data
           ELSE /\ story_data' = out.value
                /\ pc' = IF ~IsDict(out.value) \/ ~IsList(ScenesOf(out.value))
                         THEN "crashed"
                         ELSE IF Len(ScenesOf(out.value).v) = 0 THEN "layout"
                         ELSE "images"
    /\ log' = Append(log, Made("story", 0))
    /\ UNCHANGED <<client, runs, auto_save, scene_images, webtoon_image, scene_idx,
                   attempt, events, scene_sleeps, saves, session, notices, arg, ret,
                   disk_vars, requester_vars>>

\* the scene main()'s loop is at
CurrentScene == ScenesOf(story_data).v[scene_idx + 1]

\* ', '.join(characters) of line 299 and of utils line 191 takes a list of
\* strings; it raises on any other element
JoinRaises(characters) ==
    \/ ~IsList(characters)
    \/ \E n \in 1..Len(characters.v) : ~IsStr(characters.v[n])

\* lines 670-675 and 268-339: the requester is entered for scene i; the references
\* are looked up and the prompt is built
BeginScene ==
    /\ pc = "images"
    /\ IF ~SceneReadable(CurrentScene) THEN pc' = "crashed"
       ELSE IF JoinRaises(CurrentScene.v["characters"]) THEN pc' = "crashed"
       ELSE pc' = "attempt"
    /\ attempt' = 0
    /\ events' = <<>>
    /\ notices' = <<>>
    /\ UNCHANGED <<client, runs, auto_save, story_error, story_data, scene_images,
                   webtoon_image, scene_idx, text_calls, scene_sleeps, saves,
                   session, log, arg, ret, disk_vars, requester_vars>>

\* faulty variants: a delay after every failed attempt, the last one too; and
\* a delay on the exception path only
SleepAfterEveryFailure(att, outcome) == TRUE
SleepOnExceptionOnly(att, outcome) == outcome = "exception" /\ att < max_retries - 1

\* lines 366 and 370: the failed attempt is followed by time.sleep(retry_delay)
SleepBeforeRetry(att, outcome) == att < max_retries - 1

\* line 341: range(max_retries) has another attempt after this one
AnotherAttempt(att) == att + 1 < max_retries

\* line 377
Placeholder == create_error_image(panel_width, panel_height, "Image generation failed")

\* a faulty variant: a second is slept after every scene, as main() of app.py does
SleepAfterEveryScene(i, n) == TRUE

\* line 679: "if i < len(scenes) - 1"
SleepAfterScene(i, n) == i < n - 1

\* lines 679-680 as the log has them: the time.sleep(1) after scene i, if any
SceneSleep ==
    IF SleepAfterScene(scene_idx, Len(ScenesOf(story_data).v))
    THEN <<Made("sleep", 0)>>
    ELSE <<>>

\* lines 665 and 676-680: the requester has returned img for scene i
SceneReturns(img) ==
    /\ scene_images' = Append(scene_images, img)
    /\ scene_sleeps' = scene_sleeps + Len(SceneSleep)
    /\ IF scene_idx < Len(ScenesOf(story_data).v) - 1
       THEN /\ scene_idx' = scene_idx + 1
            /\ pc' = "images"
       ELSE /\ UNCHANGED scene_idx
            /\ pc' = "layout"

\* a faulty variant: the scenes are taken from the last to the first
ReversedScene == Len(ScenesOf(story_data).v) - scene_idx

\* lines 665-672: the position in the outline, from 1, of the scene whose
\* visual_description and characters the request carries
RequestedScene == scene_idx + 1

\* lines 366-372 as the log has them: the time.sleep(retry_delay) after a
\* failed attempt, if any
RetryDelay(att, outcome) ==
    IF SleepBeforeRetry(att, outcome) THEN <<Made("delay", RequestedScene)>> ELSE <<>>

\* a notice: its level, and the attempt it speaks of (0 when it speaks of none)
Notice(level, att) == [level |-> level, attempt |-> att]

\* lines 366-374: what a failed attempt shows; the path of a response without
\* an image shows nothing, the except path a warning before a retry and an
\* error after the last attempt
AttemptNotices(att, outcome) ==
    IF outcome # "exception" THEN <<>>
    ELSE IF att < max_retries - 1 THEN <<Notice("warning", att + 1)>>
    ELSE <<Notice("error", att + 1)>>

\* lines 341-377: one round of the retry loop
Attempt ==
    /\ pc = "attempt"
    /\ \E outcome \in CallOutcomes :
        IF outcome = "image"
        THEN /\ events' = Append(events, outcome)
             /\ SceneReturns(GeneratedImage(1024, 1024, RequestedScene, attempt + 1))
             /\ log' = log \o <<Made("request", RequestedScene),
                                 Made("return", Len(scene_images) + 1)>>
                            \o SceneSleep
             /\ UNCHANGED <<attempt, notices>>
        ELSE /\ events' = IF SleepBeforeRetry(attempt, outcome)
                          THEN events \o <<outcome, "delay">>
                          ELSE Append(events, outcome)
             /\ notices' = notices \o AttemptNotices(attempt, outcome)
             /\ IF AnotherAttempt(attempt)
                THEN /\ attempt' = attempt + 1
                     /\ log' = log \o <<Made("request", RequestedScene)>>
                                    \o RetryDelay(attempt, outcome)
                     /\ UNCHANGED <<pc, scene_images, scene_sleeps, scene_idx>>
                ELSE /\ SceneReturns(Placeholder)
                     /\ log' = log \o <<Made("request", RequestedScene)>>
                                    \o RetryDelay(attempt, outcome)
                                    \o <<Made("return", Len(scene_images) + 1)>>
                                    \o SceneSleep
                     /\ UNCHANGED attempt
    /\ UNCHANGED <<client, runs, auto_save, story_error, story_data, webtoon_image,
                   text_calls, saves, session, arg, ret, disk_vars, requester_vars>>

\* a faulty variant: the content is saved whatever the checkbox says
SaveAlways(checked) == TRUE

\* line 697: "if auto_save"
SaveWanted(checked) == checked

\* lines 686-697: the compositor, then the three session-state assignments
ComposeStage ==
    /\ pc = "layout"
    /\ LET out == create_enhanced_webtoon_layout(story_data, scene_images) IN
        IF out.raised
        THEN /\ pc' = "crashed"
             /\ log' = Append(log, Made("compose", 0))
             /\ UNCHANGED <<webtoon_image, session>>
        ELSE /\ webtoon_image' = out.value
             /\ session' = [story_data |-> story_data, scene_images |-> scene_images,
                            webtoon_image |-> out.value]
             /\ log' = log \o <<Made("compose", 0), Made("session", 0)>>
             /\ pc' = IF SaveWanted(auto_save) THEN "save" ELSE "done"
    /\ UNCHANGED <<client, runs, auto_save, story_error, story_data, scene_images,
                   scene_idx, attempt, events, text_calls, scene_sleeps, saves,
                   notices, arg, ret, disk_vars, requester_vars>>

\* what a call of save_generated_content comes to in a run: a path, or an
\* exception (of json.dump, of a mkdir, of a write)
SaveOutcomes == {"saved", "raised"}

\* a faulty variant: no try around the call, the exception ends the run
AbortOnSaveFailure(outcome) == IF outcome = "raised" THEN "crashed" ELSE "done"

\* lines 698-704: the try catches the exception, and the script goes on to the
\* display either way
AfterSave(outcome) == "done"

\* lines 700 and 702
SaveNotice(outcome) ==
    IF outcome = "raised" THEN Notice("warning", 0) ELSE Notice("success", 0)

\* lines 697-702: save_generated_content returns a path or raises; what it
\* leaves in the output directory is followed in SpecSave
SaveStage ==
    /\ pc = "save"
    /\ \E outcome \in SaveOutcomes :
        /\ notices' = <<SaveNotice(outcome)>>
        /\ pc' = AfterSave(outcome)
    /\ saves' = saves + 1
    /\ log' = Append(log, Made("save", 0))
    /\ UNCHANGED <<client, runs, auto_save, story_error, story_data, scene_images,
                   webtoon_image, scene_idx, attempt, events, text_calls,
                   scene_sleeps, session, arg, ret, disk_vars, requester_vars>>

\* the script run is over; main()'s locals are gone and the form waits again
Rerun ==
    /\ pc \in {"aborted", "crashed", "done"}
    /\ pc' = "idle"
    /\ story_error' = "none"
    /\ story_data' = Null
    /\ scene_images' = <<>>
    /\ webtoon_image' = NoImage
    /\ scene_idx' = 0
    /\ attempt' = 0
    /\ events' = <<>>
    /\ text_calls' = 0
    /\ scene_sleeps' = 0
    /\ saves' = 0
    /\ notices' = <<>>
    /\ log' = <<>>
    /\ UNCHANGED <<client, runs, auto_save, session, arg, ret, disk_vars, requester_vars>>

\* the prefix of a key of session state that line 608 looks at
KeyPrefix(key) ==
    CASE key = "story_data" -> "story_"
      [] key = "scene_images" -> "scene_"
      [] key = "webtoon_image" -> "webtoon_"
      [] OTHER -> ""

\* a faulty variant: the keys of the story only
ResetPrefixesStoryOnly == {"story_"}

\* line 608: key.startswith(('story_', 'scene_', 'webtoon_'))
ResetPrefixes == {"story_", "scene_", "webtoon_"}

\* lines 606-610: the Reset button deletes the keys with these prefixes, and
\* the script runs again
Reset ==
    /\ pc = "idle"
    /\ session' = [key \in {q \in DOMAIN session : KeyPrefix(q) \notin ResetPrefixes} |->
                        session[key]]
    /\ UNCHANGED <<client, pc, runs, auto_save, story_error, story_data, scene_images,
                   webtoon_image, scene_idx, attempt, events, text_calls,
                   scene_sleeps, saves, notices, log, arg, ret, disk_vars, requester_vars>>

Next ==
    \/ StopWithoutClient
    \/ ShowForm
    \/ ClickGenerate
    \/ Reset
    \/ StoryStage
    \/ BeginScene
    \/ Attempt
    \/ ComposeStage
    \/ SaveStage
    \/ Rerun

Spec == Init /\ [][Next]_vars

\* the endpoint calls and the delays of a requester call
RECURSIVE CountDelays(_)
CountDelays(ev) ==
    IF ev = <<>> THEN 0
    ELSE (IF Head(ev) = "delay" THEN 1 ELSE 0) + CountDelays(Tail(ev))

Delays(ev) == CountDelays(ev)
Calls(ev) == Len(ev) - CountDelays(ev)

----------------------------------------------------------------------------
(* EnhancedWebtoonGenerator.generate_scene_image_with_retry, step by step:   *)
(* the lookup of the reference images, the prompt, the retry loop            *)

\* main(), lines 463-476: the languages of the selectbox, each with its code
languages ==
    <<<<"English", "en">>, <<"Spanish", "es">>, <<"French", "fr">>,
      <<"German", "de">>, <<"Italian", "it">>, <<"Portuguese", "pt">>,
      <<"Japanese", "ja">>, <<"Korean", "ko">>,
      <<"Chinese (Simplified)", "zh-cn">>, <<"Arabic", "ar">>,
      <<"Hindi", "hi">>, <<"Russian", "ru">>>>

\* line 485: the codes main() can pass as language_code
LanguageCodes == {languages[n][2] : n \in 1..Len(languages)}

\* str.upper() on the codes
upper(code) ==
    CASE code = "en" -> "EN"
      [] code = "es" -> "ES"
      [] code = "fr" -> "FR"
      [] code = "de" -> "DE"
      [] code = "it" -> "IT"
      [] code = "pt" -> "PT"
      [] code = "ja" -> "JA"
      [] code = "ko" -> "KO"
      [] code = "zh-cn" -> "ZH-CN"
      [] code = "ar" -> "AR"
      [] code = "hi" -> "HI"
      [] code = "ru" -> "RU"

\* lines 277-290: the keys of language_guidance; the sentence kept for a key is
\* written in the language of the key
language_guidance_keys ==
    {"en", "es", "fr", "de", "ja", "ko", "zh-cn", "ar", "hi", "pt", "it", "ru"}

\* line 292: language_guidance.get(language, language_guidance["en"]), by the
\* language the sentence is written in
lang_text(language) ==
    IF language \in language_guidance_keys THEN language ELSE "en"

\* utils lines 145-182: the keys of language_settings and the "name" of each
language_settings_keys == {"en", "es", "fr", "de", "ja", "ko"}

language_settings_name(key) ==
    CASE key = "en" -> "English"
      [] key = "es" -> "Spanish"
      [] key = "fr" -> "French"
      [] key = "de" -> "German"
      [] key = "ja" -> "Japanese"
      [] key = "ko" -> "Korean"

\* utils line 185: language_settings.get(language, language_settings["en"])
lang_config(language) ==
    IF language \in language_settings_keys THEN language ELSE "en"

\* str() of a value inside an f-string
Format(x) ==
    CASE x.t = "str" -> x.v
      [] x.t = "num" -> ToString(x.v)
      [] x.t = "none" -> "None"

\* ', '.join(names) for a list of strings
RECURSIVE Join(_)
Join(names) ==
    IF Len(names) = 0 THEN ""
    ELSE IF Len(names) = 1 THEN names[1].v
    ELSE names[1].v \o ", " \o Join(Tail(names))

\* lines 295-336: the character-reference-aware template, by what it embeds;
\* its art style line is fixed text, the style argument is not used
ReferencePrompt(scene_description, characters, style, language) ==
    [template |-> "reference",
     scene_description |-> Format(scene_description),
     characters |-> Join(characters.v),
     art_style |-> "Korean webtoon art style (manhwa style)",
     language |-> upper(language),
     guidance |-> lang_text(language)]

\* utils.create_image_prompt, lines 185-236: the text-only template, by what it
\* embeds
create_image_prompt(scene_description, characters, style, language) ==
    [template |-> "text_only",
     scene_description |-> Format(scene_description),
     characters |-> Join(characters.v),
     art_style |-> style,
     language |-> language_settings_name(lang_config(language)),
     guidance |-> lang_config(language)]

\* an asset file of a character: whether Image.open reads it, and its side in
\* pixels (the assets are taken to be square)
Asset(file, opens, side) == [file |-> file, opens |-> opens, side |-> side]

\* lines 258-260: char_image.thumbnail((512, 512)) on an image larger than that
ReferenceImage(asset) ==
    [kind |-> "reference", file |-> asset.file,
     side |-> IF asset.side > 512 THEN 512 ELSE asset.side]

\* line 251: "char_name in characters_dict and characters_dict[char_name]['assets']";
\* the keys of characters_dict are strings
HasAssets(characters_dict, char_name) ==
    /\ IsStr(char_name)
    /\ char_name.v \in DOMAIN characters_dict
    /\ Len(characters_dict[char_name.v]) > 0

\* lines 250-264: the loop of get_character_reference_images from the n-th name
\* on; choice[m] is what random.choice draws for the m-th name
RECURSIVE ReferencesFrom(_, _, _, _)
ReferencesFrom(characters_dict, names, choice, n) ==
    IF n > Len(names) THEN [images |-> <<>>, warnings |-> <<>>]
    ELSE LET rest == ReferencesFrom(characters_dict, names, choice, n + 1) IN
         IF ~HasAssets(characters_dict, names[n]) THEN rest
         ELSE LET assets == characters_dict[names[n].v]
                  picked == assets[((choice[n] - 1) % Len(assets)) + 1]
              IN  IF picked.opens
                  THEN [images |-> <<ReferenceImage(picked)>> \o rest.images,
                        warnings |-> rest.warnings]
                  ELSE [images |-> rest.images,
                        warnings |-> <<[level |-> "warning", attempt |-> 0]>>
                                        \o rest.warnings]

\* EnhancedWebtoonGenerator.get_character_reference_images
get_character_reference_images(characters_dict, names, choice) ==
    ReferencesFrom(characters_dict, names, choice, 1)

\* a faulty variant: the reference-aware template whatever was loaded
UseReferenceTemplateAlways(refs) == TRUE

\* line 295: "if reference_images:"
UseReferenceTemplate(refs) == Len(refs) > 0

\* lines 292-339: the prompt of a call
BuildPrompt(refs, scene_description, characters, style, language) ==
    IF UseReferenceTemplate(refs)
    THEN ReferencePrompt(scene_description, characters, style, language)
    ELSE create_image_prompt(scene_description, characters, style, language)

\* a faulty variant: the reference images sent with the first attempt only
ContentsFirstAttemptOnly(att, p, refs) == IF att = 0 THEN <<p>> \o refs ELSE <<p>>

\* line 344: contents = [prompt] + reference_images
Contents(att, p, refs) == <<p>> \o refs

\* a faulty variant: the guard of lines 270-271 left out
ClientNeverMissing(c) == FALSE

\* line 270: "if not self.client"
ClientMissing(c) == ~c

\* what the requester gives back: an image or None, or an exception
RequesterReturns(img) == Returned([raised |-> FALSE, value |-> img])
RequesterRaises == Returned([raised |-> TRUE, value |-> NoImage])

\* config.py line 29
supported_styles == <<"cartoon", "anime", "cute", "colorful", "realistic">>

\* the characters lists a validated scene can hold: names, and a number
\* (validate_story_data does not look at the elements of the list)
CharacterLists ==
    LET NameValues == {Str("Fox"), Str("Owl"), Num(7)}
    IN  UNION {[1..n -> NameValues] : n \in 0..MaxCharacters}

\* what load_character_assets finds in the characters directory (utils 19-50: a
\* character is listed only with one asset at least)
CharacterDirectories ==
    LET FoxFile == Asset("characters/Fox/fox_1.png", TRUE, 1024)
        FoxBroken == Asset("characters/Fox/fox_2.png", FALSE, 0)
        OwlFile == Asset("characters/Owl/owl_1.png", TRUE, 256)
    IN  {[c \in {} |-> <<>>],
         [c \in {"Fox"} |-> <<FoxFile>>],
         [c \in {"Fox"} |-> <<FoxBroken>>],
         [c \in {"Fox"} |-> <<FoxFile, FoxBroken>>],
         [c \in {"Fox", "Owl"} |-> IF c = "Fox" THEN <<FoxFile>> ELSE <<OwlFile>>]}

InitGenerator ==
    /\ client \in BOOLEAN
    /\ pc = "start"
    /\ runs = 0
    /\ auto_save = FALSE
    /\ story_error = "none"
    /\ story_data = Null
    /\ scene_images = <<>>
    /\ webtoon_image = NoImage
    /\ scene_idx = 0
    /\ attempt = 0
    /\ events = <<>>
    /\ text_calls = 0
    /\ scene_sleeps = 0
    /\ saves = 0
    /\ session = NoSession
    /\ notices = <<>>
    /\ log = <<>>
    /\ DiskAtRest
    /\ RequesterAtRest
    /\ arg \in {[scene_description |-> Str("A fox counts the stars"),
                 characters |-> List(l), style |-> s, language |-> c,
                 characters_dict |-> d] :
                    l \in CharacterLists, c \in LanguageCodes,
                    s \in {supported_styles[1], supported_styles[2]},
                    d \in CharacterDirectories}
    /\ ret = NotCalled

\* lines 202-240: generate_educational_story is called on the generator
GeneratorStory ==
    /\ pc = "start"
    /\ \E response \in {RaisedResponse, TextResponse(EmptyText),
                        TextResponse(JsonText(MinimalPayload))} :
        LET out == generate_educational_story(client, response) IN
        /\ text_calls' = text_calls + out.requests
        /\ story_error' = out.error
        /\ story_data' = out.value
    /\ pc' = "story_returned"
    /\ UNCHANGED <<client, runs, auto_save, scene_images, webtoon_image, scene_idx,
                   attempt, events, scene_sleeps, saves, session, notices, log,
                   arg, ret, disk_vars, requester_vars>>

\* lines 268-339: generate_scene_image_with_retry is called on the generator;
\* up to the retry loop
EnterRequester ==
    /\ pc = "start"
    /\ IF ClientMissing(client)
       THEN /\ ret' = RequesterReturns(NoImage)
            /\ pc' = "returned"
            /\ UNCHANGED <<notices, requester_vars>>
       ELSE \E choice \in [1..Len(arg.characters.v) -> 1..MaxAssets] :
            LET looked == get_character_reference_images(arg.characters_dict,
                                                         arg.characters.v, choice)
            IN  /\ notices' = looked.warnings
                /\ IF JoinRaises(arg.characters)
                   THEN /\ ret' = RequesterRaises
                        /\ pc' = "raised"
                        /\ UNCHANGED requester_vars
                   ELSE /\ reference_images' = looked.images
                        /\ prompt' = BuildPrompt(looked.images, arg.scene_description,
                                                 arg.characters, arg.style, arg.language)
                        /\ pc' = "attempt"
                        /\ UNCHANGED <<ret, sent>>
    /\ UNCHANGED <<client, runs, auto_save, story_error, story_data, scene_images,
                   webtoon_image, scene_idx, attempt, events, text_calls,
                   scene_sleeps, saves, session, log, arg, disk_vars>>

\* lines 341-377: one round of the retry loop of the call
RequesterAttempt ==
    /\ pc = "attempt"
    /\ ~ret.done
    /\ sent' = Append(sent, Contents(attempt, prompt, reference_images))
    /\ \E outcome \in CallOutcomes :
        IF outcome = "image"
        THEN /\ events' = Append(events, outcome)
             /\ ret' = RequesterReturns(GeneratedImage(1024, 1024, 1, attempt + 1))
             /\ pc' = "returned"
             /\ UNCHANGED <<attempt, notices>>
        ELSE /\ events' = IF SleepBeforeRetry(attempt, outcome)
                          THEN events \o <<outcome, "delay">>
                          ELSE Append(events, outcome)
             /\ notices' = notices \o AttemptNotices(attempt, outcome)
             /\ IF AnotherAttempt(attempt)
                THEN /\ attempt' = attempt + 1
                     /\ UNCHANGED <<pc, ret>>
                ELSE /\ ret' = RequesterReturns(Placeholder)
                     /\ pc' = "returned"
                     /\ UNCHANGED attempt
    /\ UNCHANGED <<client, runs, auto_save, story_error, story_data, scene_images,
                   webtoon_image, scene_idx, text_calls, scene_sleeps, saves,
                   session, log, arg, prompt, reference_images, disk_vars>>

\* a generator object: main() goes on with it (it stops, or it shows the form),
\* or one of its requesters is called
NextGenerator ==
    \/ StopWithoutClient
    \/ ShowForm
    \/ GeneratorStory
    \/ EnterRequester
    \/ RequesterAttempt

SpecGenerator == InitGenerator /\ [][NextGenerator]_vars

----------------------------------------------------------------------------
(* The basic app (src/app.py): WebtoonGenerator and its main()               *)

\* WebtoonGenerator.generate_story_outline: the value returned, the number of
\* text requests made and which st.error was shown; what json.loads gives is
\* returned as it is
generate_story_outline(has_client, response) ==
    IF ~has_client THEN [value |-> Null, requests |-> 0, error |-> "client"]
    ELSE IF response.kind = "raise" THEN [value |-> Null, requests |-> 1, error |-> "exception"]
    ELSE IF response.text.form = "empty" THEN [value |-> Null, requests |-> 1, error |-> "empty"]
    ELSE LET parsed == json_loads(response.text) IN
         IF parsed.raised THEN [value |-> Null, requests |-> 1, error |-> "exception"]
         ELSE [value |-> parsed.value, requests |-> 1, error |-> "none"]

\* WebtoonGenerator.get_character_reference_images, lines 158-172, from the n-th
\* name on: the first PNG file of the character's folder, if Image.open reads it
RECURSIVE BasicReferencesFrom(_, _, _)
BasicReferencesFrom(characters_dict, names, n) ==
    IF n > Len(names) THEN <<>>
    ELSE LET rest == BasicReferencesFrom(characters_dict, names, n + 1) IN
         IF HasAssets(characters_dict, names[n]) /\ characters_dict[names[n].v][1].opens
         THEN <<ReferenceImage(characters_dict[names[n].v][1])>> \o rest
         ELSE rest

\* lines 187-203 and 205-221: the two templates of generate_scene_image, by what
\* they embed
BasicPrompt(template, scene_description, characters, style) ==
    [template |-> template,
     scene_description |-> Format(scene_description),
     characters |-> Join(characters.v),
     art_style |-> style]

\* WebtoonGenerator.generate_scene_image: one call of the image endpoint, no
\* retry; None when the response has no image and when the call raises.  The
\* lookup ("characters_dir / char_name", line 159) and ', '.join(characters)
\* (lines 191 and 208) come before the try and raise on a name that is not a
\* string
generate_scene_image(has_client, description, characters, style, characters_dict, outcome) ==
    IF ~has_client
    THEN [raised |-> FALSE, value |-> NoImage, contents |-> <<>>,
          notices |-> <<Notice("error", 0)>>]
    ELSE IF JoinRaises(characters)
    THEN [raised |-> TRUE, value |-> NoImage, contents |-> <<>>, notices |-> <<>>]
    ELSE LET refs == BasicReferencesFrom(characters_dict, characters.v, 1)
             enhanced_prompt ==
                BasicPrompt(IF Len(refs) > 0 THEN "reference" ELSE "text_only",
                            description, characters, style)
             contents == <<enhanced_prompt>> \o refs
         IN  CASE outcome = "image" ->
                    [raised |-> FALSE, value |-> GeneratedImage(1024, 1024, 0, 1),
                     contents |-> contents, notices |-> <<>>]
               [] outcome = "no_image" ->
                    [raised |-> FALSE, value |-> NoImage, contents |-> contents,
                     notices |-> <<Notice("warning", 1)>>]
               [] outcome = "exception" ->
                    [raised |-> FALSE, value |-> NoImage, contents |-> contents,
                     notices |-> <<Notice("error", 1)>>]

\* the loop of lines 276-282 from pair n on: a present image is resized and
\* pasted at (padding, current_y), a None slot is stepped over
RECURSIVE BasicPastePanels(_, _, _, _)
BasicPastePanels(scenes, images, n, current_y) ==
    IF n > Len(scenes) \/ n > Len(images) THEN <<>>
    ELSE (IF ImagePresent(images[n])
          THEN <<[x |-> padding, y |-> current_y, width |-> panel_width,
                  height |-> panel_height, of |-> images[n]]>>
          ELSE <<>>)
            \o BasicPastePanels(scenes, images, n + 1, current_y + panel_height + padding)

\* WebtoonGenerator.create_webtoon_layout: no title is drawn, and the first
\* panel starts at current_y = padding (line 273)
create_webtoon_layout(data, images) ==
    IF ~Truthy(data) THEN NoCanvas
    ELSE IF ~IsDict(data) THEN [raised |-> TRUE, allocated |-> FALSE, value |-> NoImage]
    ELSE IF ~HasKey(data, "scenes") \/ ~Truthy(data.v["scenes"]) \/ Len(images) = 0
    THEN NoCanvas
    ELSE LET scenes == data.v["scenes"].v IN
         [raised |-> FALSE, allocated |-> TRUE,
          value |-> [kind |-> "canvas",
                     width |-> panel_width + 2 * padding,
                     height |-> title_height + (panel_height + padding) * Len(scenes)
                                    + padding,
                     title |-> "",
                     panels |-> BasicPastePanels(scenes, images, 1, padding)]]

\* what the text endpoint answers the basic app with; nothing checks the
\* outlines
BasicResponses ==
    LET BasicOutlines ==
            {PayloadWith(TopKeys, Str("The water cycle"), List(l)) :
                l \in UNION {[1..n -> {GoodScene, SceneNumChars}] : n \in 0..MaxScenes}}
            \cup {PayloadWith(TopKeys \ {"scenes"}, Str("The water cycle"), Null),
                  Str("story"), List(<<>>)}
    IN  {RaisedResponse, TextResponse(EmptyText), TextResponse(MalformedText)}
            \cup {TextResponse(JsonText(p)) : p \in BasicOutlines}

InitBasic ==
    /\ PipelineAtRest
    /\ DiskAtRest
    /\ RequesterAtRest
    /\ arg \in {[style |-> s, characters_dict |-> d] :
                    s \in {"cartoon", "anime"}, d \in CharacterDirectories}
    /\ ret = NotCalled

\* main(), lines 342-366: the Generate button with a complete form, and the
\* story outline
BasicGenerate ==
    /\ pc = "idle"
    /\ runs = 0
    /\ runs' = runs + 1
    /\ \E response \in BasicResponses :
        LET out == generate_story_outline(client, response) IN
        /\ text_calls' = text_calls + out.requests
        /\ story_error' = out.error
        /\ IF ~Truthy(out.value)
           THEN /\ pc' = "aborted"
                /\ UNCHANGED story_data
           ELSE /\ story_data' = out.value
                /\ pc' = IF IsDict(out.value) /\ HasKey(out.value, "scenes")
                            /\ Len(out.value.v["scenes"].v) > 0
                         THEN "images"
                         ELSE "layout"
    /\ UNCHANGED <<client, auto_save, scene_images, webtoon_image, scene_idx, attempt,
                   events, scene_sleeps, saves, session, notices, log, arg, ret,
                   disk_vars, requester_vars>>

\* main(), lines 371-384: one round of the loop over the scenes
BasicScene ==
    /\ pc = "images"
    /\ \E outcome \in CallOutcomes :
        LET scene == story_data.v["scenes"].v[scene_idx + 1]
            out == generate_scene_image(client, scene.v["visual_description"],
                                        scene.v["characters"], arg.style,
                                        arg.characters_dict, outcome)
        IN  IF out.raised
            THEN /\ pc' = "crashed"
                 /\ UNCHANGED <<scene_images, scene_idx, events, scene_sleeps, notices,
                                sent>>
            ELSE /\ scene_images' = Append(scene_images, out.value)
                 /\ events' = Append(events, outcome)
                 /\ notices' = notices \o out.notices
                 /\ sent' = Append(sent, out.contents)
                 /\ scene_sleeps' = scene_sleeps + 1
                 /\ IF scene_idx + 1 < Len(story_data.v["scenes"].v)
                    THEN /\ scene_idx' = scene_idx + 1
                         /\ UNCHANGED pc
                    ELSE /\ pc' = "layout"
                         /\ UNCHANGED scene_idx
    /\ UNCHANGED <<client, runs, auto_save, story_error, story_data, webtoon_image,
                   attempt, text_calls, saves, session, log, arg, ret, disk_vars,
                   prompt, reference_images>>

\* main(), lines 390-401: the compositor is given scene_images as they are, and
\* the results go to session state
BasicCompose ==
    /\ pc = "layout"
    /\ LET out == create_webtoon_layout(story_data, scene_images) IN
        IF out.raised
        THEN /\ pc' = "crashed"
             /\ UNCHANGED <<webtoon_image, session>>
        ELSE /\ webtoon_image' = out.value
             /\ session' = [story_data |-> story_data, scene_images |-> scene_images,
                            webtoon_image |-> out.value]
             /\ pc' = "done"
    /\ UNCHANGED <<client, runs, auto_save, story_error, story_data, scene_images,
                   scene_idx, attempt, events, text_calls, scene_sleeps, saves,
                   notices, log, arg, ret, disk_vars, requester_vars>>

NextBasic ==
    \/ BasicGenerate
    \/ BasicScene
    \/ BasicCompose

SpecBasic == InitBasic /\ [][NextBasic]_vars

----------------------------------------------------------------------------
(* Properties *)

\* the requester call for a scene has just returned to main()
JustReturned == pc \in {"images", "layout"} /\ events # <<>>

\* the image that call returned
ReturnedImage == scene_images[Len(scene_images)]

\* every name in every scene's characters list is a string
StringNames(data) ==
    \A n \in 1..Len(ScenesOf(data).v) :
        LET chars == ScenesOf(data).v[n].v["characters"] IN
        \A m \in 1..Len(chars.v) : IsStr(chars.v[m])

\* the canvas shows the images one per scene, in their order
PanelsFollow(canvas, images) ==
    /\ Len(canvas.panels) = Len(images)
    /\ \A n \in 1..Len(images) : canvas.panels[n].of = images[n]

\* C1: in a run on an outline that validate_story_data accepted and whose
\* characters lists hold strings only, whatever the image endpoint does, no
\* exception ends the run, no requester call makes more than max_retries
\* attempts, and the run comes out of the compositor with one present image
\* per scene, in scene order, and a present webtoon made of them.
\* (Stated as the claim has it; the outline with a null title refutes it.)
C1_CompleteWebtoon ==
    (story_data # Null /\ StringNames(story_data)) =>
        /\ pc # "crashed"
        /\ attempt < max_retries
        /\ Calls(events) <= max_retries
        /\ pc \in {"save", "done"} =>
            /\ Len(scene_images) = Len(ScenesOf(story_data).v)
            /\ \A n \in 1..Len(scene_images) :
                /\ ImagePresent(scene_images[n])
                /\ scene_images[n].kind = "generated" => scene_images[n].scene = n
            /\ webtoon_image.kind = "canvas"
            /\ PanelsFollow(webtoon_image, scene_images)

\* C2: a requester call in which every endpoint call failed, by an exception
\* or by a response without an image, returns a placeholder of panel_width x
\* panel_height after exactly max_retries calls and max_retries - 1 delays,
\* the last thing it did being a call, not a delay.
C2_PlaceholderAfterRetries ==
    (JustReturned /\ \A n \in 1..Len(events) : events[n] # "image") =>
        /\ ReturnedImage.kind = "placeholder"
        /\ ReturnedImage.width = panel_width
        /\ ReturnedImage.height = panel_height
        /\ Calls(events) = max_retries
        /\ Delays(events) = max_retries - 1
        /\ events[Len(events)] # "delay"

C2_Witness ==
    /\ JustReturned
    /\ events = <<"exception", "delay", "no_image", "delay", "exception">>
    /\ ReturnedImage = Placeholder

\* C3: a requester call whose first successful endpoint call is its k-th returns
\* the image of that call after exactly k calls and k - 1 delays, k being at
\* most max_retries; a successful call is always the last event of its
\* requester call.
C3_ReturnsFirstSuccess ==
    /\ \A n \in 1..(Len(events) - 1) : events[n] # "image"
    /\ (JustReturned /\ events[Len(events)] = "image") =>
        LET k == Calls(events) IN
        /\ k \in 1..max_retries
        /\ ReturnedImage.kind = "generated"
        /\ ReturnedImage.attempt = k
        /\ ReturnedImage.scene = Len(scene_images)
        /\ Delays(events) = k - 1

C3_Witness ==
    /\ JustReturned
    /\ events = <<"no_image", "delay", "image">>
    /\ ReturnedImage.attempt = 2

\* nothing of the image, layout and save stages has happened in this run
NothingGenerated ==
    /\ events = <<>>
    /\ scene_images = <<>>
    /\ webtoon_image = NoImage
    /\ saves = 0

WellFormedPayload(p) ==
    /\ IsDict(p)
    /\ {"title", "concept", "scenes"} \subseteq DOMAIN p.v
    /\ IsList(p.v["scenes"])
    /\ Len(p.v["scenes"].v) >= 1
    /\ \A n \in 1..Len(p.v["scenes"].v) :
        LET scene == p.v["scenes"].v[n] IN
        /\ IsDict(scene)
        /\ {"scene_number", "location", "characters", "dialogue", "action",
            "educational_point", "visual_description"} \subseteq DOMAIN scene.v
        /\ IsList(scene.v["characters"])

\* C5: generate_educational_story returns a value other than None only when the
\* response parsed to a payload that validate_story_data accepts, and then it
\* returns that payload as it was parsed; for an empty response, a text that
\* does not parse and a payload that fails validation it returns None.
C5_OnlyValidatedOutlines ==
    ret.done =>
        LET response == arg.response IN
        /\ ret.out.value # Null =>
            /\ response.kind = "text"
            /\ response.text.form = "json"
            /\ ret.out.value = response.text.doc
            /\ validate_story_data(ret.out.value)
        /\ (/\ response.kind = "text"
            /\ \/ response.text.form \in {"empty", "malformed"}
               \/ ~WellFormedPayload(response.text.doc)) => ret.out.value = Null

C5_Witness ==
    /\ ret.done
    /\ arg.has_client
    /\ ret.out.value = MinimalPayload
    /\ ret.out.error = "none"

\* C6: validate_story_data returns True exactly for a dict with the keys title,
\* concept and scenes whose scenes is a non-empty list of dicts that each hold
\* the seven scene keys and a list as characters; so it rejects a payload
\* without scenes, a scene without educational_point and a characters value
\* that is no list, and accepts the minimal one-scene payload.
C6_ValidateCharacterised ==
    ret.done =>
        /\ ret.out <=> WellFormedPayload(arg)
        /\ (IsDict(arg) /\ ~HasKey(arg, "scenes")) => ~ret.out
        /\ (IsDict(arg) /\ HasKey(arg, "scenes") /\ IsList(arg.v["scenes"])
            /\ \E n \in 1..Len(arg.v["scenes"].v) :
                    arg.v["scenes"].v[n] \in {SceneNoPoint, SceneCharsNotList})
                => ~ret.out
        /\ arg = MinimalPayload => ret.out

C6_Witness ==
    /\ ret.done
    /\ ret.out
    /\ arg = MinimalPayload

\* the parsed payload of the response given to the story requester
ParsedPayload == arg.response.text.doc

HasParsedPayload ==
    /\ arg.has_client
    /\ arg.response.kind = "text"
    /\ arg.response.text.form = "json"

\* C7 as claimed: a parsed payload that lacks title, concept, target_age or
\* scenes is never returned as an outline.
C7_RejectsMissingTargetAge ==
    (/\ ret.done
     /\ HasParsedPayload
     /\ IsDict(ParsedPayload)
     /\ \E k \in {"title", "concept", "target_age", "scenes"} :
            ~HasKey(ParsedPayload, k)) => ret.out.value = Null

\* C7 as amended: a parsed payload that lacks title, concept or scenes is
\* rejected as an invalid story; target_age is not asked for, and a payload that
\* lacks nothing but target_age is returned as the outline.
C7_RejectsMissingRequired ==
    (ret.done /\ HasParsedPayload /\ IsDict(ParsedPayload)) =>
        /\ (\E k \in {"title", "concept", "scenes"} : ~HasKey(ParsedPayload, k))
                => (ret.out.value = Null /\ ret.out.error = "invalid")
        /\ (/\ ~HasKey(ParsedPayload, "target_age")
            /\ WellFormedPayload(ParsedPayload))
                => (ret.out.value = ParsedPayload /\ ret.out.error = "none")

C7_Witness ==
    /\ ret.done
    /\ HasParsedPayload
    /\ ParsedPayload =
            PayloadWith({"title", "target_age", "scenes"}, Str("The water cycle"),
                        List(<<GoodScene>>))
    /\ ret.out.value = Null
    /\ ret.out.error = "invalid"

\* the compositor was given an outline of the data model (a dict whose title,
\* when it has one, is a string and whose scenes is a list) with n scenes, and
\* n images
LayoutCase(n) ==
    /\ ret.done
    /\ IsDict(arg.story_data)
    /\ HasKey(arg.story_data, "scenes")
    /\ IsStr(TitleText(arg.story_data))
    /\ Len(arg.story_data.v["scenes"].v) = n
    /\ Len(arg.scene_images) = n

\* C8: for an outline with N >= 1 scenes and N images, whatever the images are
\* (present or None, of any size), the compositor returns a canvas of width
\* panel_width + 2*padding and of height title_height + N*(panel_height +
\* padding) + c, with the one constant c = 2*padding.
C8_CanvasSize ==
    \A n \in 1..MaxLayoutScenes :
        LayoutCase(n) =>
            /\ ~ret.out.raised
            /\ ret.out.value.kind = "canvas"
            /\ ret.out.value.width = panel_width + 2 * padding
            /\ ret.out.value.height
                    = title_height + n * (panel_height + padding) + 2 * padding

C8_Witness ==
    /\ LayoutCase(2)
    /\ arg.scene_images = <<NoImage, GeneratedImage(400, 300, 1, 1)>>
    /\ ret.out.value.kind = "canvas"
    /\ ret.out.value.height = 1380

ThreePlaceholders == <<Placeholder, Placeholder, Placeholder>>

\* C9 as claimed: three scenes and three placeholders give a canvas of width
\* panel_width + 2*padding = 840 and of height title_height + 3*(panel_height +
\* padding) + padding = 1980.
C9_HeightOnePadding ==
    (LayoutCase(3) /\ arg.scene_images = ThreePlaceholders) =>
        /\ ret.out.value.kind = "canvas"
        /\ ret.out.value.width = panel_width + 2 * padding
        /\ ret.out.value.width = 840
        /\ ret.out.value.height = title_height + 3 * (panel_height + padding) + padding
        /\ ret.out.value.height = 1980

\* C9 as amended: three scenes and three placeholders give a canvas of width
\* panel_width + 2*padding = 840 and of height title_height + 3*(panel_height +
\* padding) + 2*padding = 2000: the additive constant is two paddings.
C9_HeightTwoPaddings ==
    (LayoutCase(3) /\ arg.scene_images = ThreePlaceholders) =>
        /\ ret.out.value.kind = "canvas"
        /\ ret.out.value.width = panel_width + 2 * padding
        /\ ret.out.value.width = 840
        /\ ret.out.value.height
                = title_height + 3 * (panel_height + padding) + 2 * padding
        /\ ret.out.value.height = 2000

C9_Witness ==
    /\ LayoutCase(3)
    /\ arg.scene_images = ThreePlaceholders
    /\ ret.out.value.kind = "canvas"
    /\ Len(ret.out.value.panels) = 3

\* C10 as claimed: the compositor returns None, and allocates no canvas,
\* whenever the outline's scenes list is empty or the image sequence is empty.
C10_NoneWithoutScenesOrImages ==
    (/\ ret.done
     /\ \/ Len(arg.scene_images) = 0
        \/ /\ IsDict(arg.story_data)
           /\ HasKey(arg.story_data, "scenes")
           /\ IsList(arg.story_data.v["scenes"])
           /\ Len(arg.story_data.v["scenes"].v) = 0)
        => (ret.out.value = NoImage /\ ~ret.out.allocated /\ ~ret.out.raised)

\* the save stage of the run has just failed: the warning of line 702 is shown
SaveFailed == notices = <<Notice("warning", 0)>>

\* what the run stored in session state at lines 692-694
StoredByRun ==
    [story_data |-> story_data, scene_images |-> scene_images,
     webtoon_image |-> webtoon_image]

\* C11: a save stage shows the success notice or the warning, nothing else;
\* when save_generated_content raises, the step shows the warning, leaves
\* session state as it was, which is the story, the images and the webtoon
\* this run stored, leaves the run's own values alone and goes on to the
\* display; and the display leaves session state alone too.
C11_SaveFailureIsolated ==
    [][/\ pc = "save" =>
            /\ notices' \in {<<Notice("warning", 0)>>, <<Notice("success", 0)>>}
            /\ SaveFailed' =>
                /\ session = StoredByRun
                /\ session' = session
                /\ StoredByRun' = StoredByRun
                /\ session.webtoon_image.kind = "canvas"
                /\ pc' = "done"
       /\ pc = "done" => (session' = session /\ pc' = "idle")]_vars

C11_Witness ==
    /\ pc = "done"
    /\ saves = 1
    /\ SaveFailed
    /\ session = StoredByRun
    /\ Len(session.scene_images) = 2

\* C12 as claimed: every call of save_generated_content, two calls in the same
\* clock second included, works in a run directory that no earlier call has
\* made, so no two calls return the same path and none writes where an
\* earlier call left files.
C12_FreshLocation ==
    [][saves' = saves + 1 => ~(ret'.out.dir \in DOMAIN disk)]_vars

\* the positions of a list of images, from 0, that hold an image
PresentPositions(images) ==
    {i \in 0..(Len(images) - 1) : ImagePresent(images[i + 1])}

\* C13: a call of save_generated_content that returns has written, into the run
\* directory whose path it returns, the file story_data.json and, for every
\* 0-based position i that holds an image, that image as scene_<i+1>.png; it
\* has written nothing for a position that holds None, and the numbers of the
\* later positions are not shifted.
C13_SceneFiles ==
    (ret.done /\ ~ret.out.raised) =>
        LET images == arg.images
            dir == disk[ret.out.dir]
        IN  /\ ret.out.path = "output/" \o ret.out.dir
            /\ ret.out.written =
                    {"story_data.json"}
                        \cup {"scene_" \o ToString(i + 1) \o ".png" :
                                    i \in PresentPositions(images)}
            /\ ret.out.written \subseteq DOMAIN dir
            /\ \A i \in PresentPositions(images) :
                    dir["scene_" \o ToString(i + 1) \o ".png"] = images[i + 1]

C13_Witness ==
    /\ ret.done
    /\ ~ret.out.raised
    /\ arg.images = <<NoImage, GeneratedImage(1024, 1024, 1, 1)>>
    /\ ret.out.written = {"story_data.json", "scene_2.png"}
    /\ DOMAIN disk[ret.out.dir] = {"story_data.json", "scene_2.png"}

\* C14 as claimed: for every outline that validate_story_data accepts, json.load
\* of the story_data.json that save_generated_content left gives a value equal
\* to the outline.
C14_RoundTrip ==
    (ret.done /\ validate_story_data(arg.story_data)) =>
        LET reloaded == json_load(disk[ret.out.dir]["story_data.json"]) IN
        /\ ~reloaded.raised
        /\ reloaded.value = arg.story_data

\* C15 as claimed: an outline that generate_educational_story returns for a
\* request of num_scenes scenes has exactly num_scenes scenes.
C15_ExactSceneCount ==
    (ret.done /\ ret.out.value # Null) =>
        Len(ret.out.value.v["scenes"].v) = arg.num_scenes

\* the calls of a requester call that failed
RECURSIVE FailedCalls(_)
FailedCalls(ev) ==
    IF ev = <<>> THEN 0
    ELSE (IF Head(ev) \in {"no_image", "exception"} THEN 1 ELSE 0)
            + FailedCalls(Tail(ev))

\* C16 as claimed: while a requester call goes on and when it has returned,
\* every failed attempt of it, by an exception or by a response without an
\* image, has its warning or error notice, and so has the placeholder it
\* returns after the last attempt.
C16_EveryFailureNoticed ==
    pc \in {"attempt", "images", "layout"} =>
        /\ \A n \in 1..Len(notices) : notices[n].level \in {"warning", "error"}
        /\ Len(notices) >= FailedCalls(events)
        /\ (JustReturned /\ ReturnedImage.kind = "placeholder") => notices # <<>>

\* the requester calls that have returned before entry n of the log
ReturnsBefore(n) == Cardinality({m \in 1..(n - 1) : log[m].op = "return"})

\* C17: in a run, every request to the image endpoint is for the scene that
\* follows the scenes whose requester calls have returned: a request for scene
\* i + 1 comes after the return for scene i and before the return for scene
\* i + 1, and the returns come in scene order, each right after a request for
\* its own scene. A request is made and answered within one step of the run,
\* so none is outstanding when the next one is made.
C17_SceneOrder ==
    \A n \in 1..Len(log) :
        /\ log[n].op = "request" =>
            /\ log[n].scene = ReturnsBefore(n) + 1
            /\ log[n].scene <= Len(ScenesOf(story_data).v)
        /\ log[n].op = "return" =>
            /\ log[n].scene = ReturnsBefore(n) + 1
            /\ n > 1
            /\ log[n - 1] = Made("request", log[n].scene)

C17_Witness ==
    /\ pc = "layout"
    /\ log = <<Made("story", 0), Made("request", 1), Made("delay", 1),
               Made("request", 1), Made("return", 1), Made("sleep", 0),
               Made("request", 2), Made("return", 2)>>
    /\ Len(scene_images) = 2

\* the place of a call in the order of the stages
StageRank(op) ==
    CASE op = "story" -> 1
      [] op \in {"request", "delay", "return", "sleep"} -> 2
      [] op = "compose" -> 3
      [] op = "session" -> 4
      [] op = "save" -> 5

\* C18: in a run the story request comes first and once; the requests of the
\* scenes follow; the compositor is called once, after the requester of the
\* last scene has returned; session state is written after it; and
\* save_generated_content is called at most once, right after session state
\* was written, and only with the auto-save box checked.
C18_StageOrder ==
    /\ log # <<>> => log[1].op = "story"
    /\ \A n \in 2..Len(log) :
        /\ log[n].op # "story"
        /\ StageRank(log[n - 1].op) <= StageRank(log[n].op)
        /\ log[n].op = "compose" =>
            /\ log[n - 1].op = "return"
            /\ ReturnsBefore(n) = Len(ScenesOf(story_data).v)
        /\ log[n].op = "session" => log[n - 1].op = "compose"
        /\ log[n].op = "save" => (log[n - 1].op = "session" /\ auto_save)
    /\ saves = Cardinality({n \in 1..Len(log) : log[n].op = "save"})
    /\ saves <= 1

C18_Witness ==
    /\ pc = "done"
    /\ Len(log) = 8
    /\ log[5].op = "return"
    /\ log[6].op = "compose"
    /\ log[7].op = "session"
    /\ log[8].op = "save"

\* the parts of the response that hold an image that opens
DecodableParts == {n \in 1..Len(arg) : arg[n] \in {"base64", "raw"}}

\* C19 as claimed: of a response that has a part whose image opens, as base64
\* or as it is, the attempt returns the image of the first such part, also when
\* an earlier part holds data that opens neither way.
C19_FirstDecodablePart ==
    (ret.done /\ DecodableParts # {}) =>
        /\ ret.out.outcome = "image"
        /\ \A n \in DecodableParts : ret.out.part <= n
        /\ ret.out.part \in DecodableParts

\* C20: with N scenes and N images the compositor pastes N panels, panel i (from
\* 0) at x = padding and y = title_height + padding + i*(panel_height +
\* padding), each panel_width x panel_height and showing image i or, where
\* there is none, the placeholder of scene i + 1; no two panels overlap, none
\* reaches into the title band above title_height, and all lie inside the
\* canvas.
C20_PanelGeometry ==
    \A N \in 1..MaxLayoutScenes :
        LayoutCase(N) =>
            LET canvas == ret.out.value
                panels == canvas.panels
            IN  /\ Len(panels) = N
                /\ \A i \in 0..(N - 1) :
                    LET p == panels[i + 1] IN
                    /\ p.x = padding
                    /\ p.y = title_height + padding + i * (panel_height + padding)
                    /\ p.width = panel_width
                    /\ p.height = panel_height
                    /\ p.of = IF ImagePresent(arg.scene_images[i + 1])
                              THEN arg.scene_images[i + 1]
                              ELSE create_error_image(panel_width, panel_height,
                                                      "Scene " \o ToString(i + 1))
                    /\ p.y >= title_height
                    /\ p.x >= 0
                    /\ p.x + p.width <= canvas.width
                    /\ p.y + p.height <= canvas.height
                    /\ \A k \in (i + 1)..(N - 1) : p.y + p.height <= panels[k + 1].y

C20_Witness ==
    /\ LayoutCase(3)
    /\ arg.scene_images =
            <<GeneratedImage(1024, 1024, 1, 1), NoImage, GeneratedImage(400, 300, 1, 1)>>
    /\ ret.out.value.panels[3].y = 1360
    /\ ret.out.value.panels[2].of.message = "Scene 2"

\* the entries of the log that are a time.sleep
Waits == {"delay", "sleep"}

\* the places of the log where the image endpoint was called
RequestsAt == {n \in 1..Len(log) : log[n].op = "request"}

\* the places of the log where the run waited
WaitsAt == {n \in 1..Len(log) : log[n].op \in Waits}

\* the requester has returned for every scene of the run
ImageStageOver ==
    \/ pc \in {"layout", "save", "done"}
    \/ pc = "crashed" /\ Len(log) > 0 /\ log[Len(log)].op = "compose"

\* C25: in a run of the enhanced pipeline exactly one delay lies between every
\* two consecutive calls of the image endpoint (the retry delay between two
\* attempts of one scene, the delay between scenes between the last call of a
\* scene and the first call of the next), and once the requester has returned
\* for every scene no delay follows the last call, so that the delays are one
\* fewer than the calls
C25_OneDelayBetweenCalls ==
    LET IsCall(e) == e.op = "request"
        IsWait(e) == e.op \in Waits
        IsCallOrWait(e) == IsCall(e) \/ IsWait(e)
        \* the calls of the image endpoint and the delays of the run, in order
        steps == SelectSeq(log, IsCallOrWait)
    IN  /\ \A n \in 1..Len(steps) :
                IF IsCall(steps[n])
                THEN n > 1 => IsWait(steps[n - 1])
                ELSE /\ n > 1
                     /\ IsCall(steps[n - 1])
                     /\ n < Len(steps) =>
                            /\ IsCall(steps[n + 1])
                            /\ steps[n] = IF steps[n - 1].scene = steps[n + 1].scene
                                          THEN Made("delay", steps[n - 1].scene)
                                          ELSE Made("sleep", 0)
        /\ (ImageStageOver /\ Len(steps) > 0) =>
                /\ IsCall(steps[Len(steps)])
                /\ Len(SelectSeq(steps, IsWait)) = Len(SelectSeq(steps, IsCall)) - 1

C25_Witness ==
    /\ pc = "layout"
    /\ Cardinality(RequestsAt) = 4
    /\ Cardinality(WaitsAt) = 3
    /\ \E k \in WaitsAt : log[k].op = "sleep"
    /\ log[Len(log)].op = "return"

\* the keys that lines 692-694 write
SessionKeys == {"story_data", "scene_images", "webtoon_image"}

\* C28: session state holds story_data, scene_images and webtoon_image all
\* three or none of them; when it holds them, scene_images has one entry for
\* every scene of story_data; and session state changes only by taking all
\* three from the one run that has just composed its webtoon, or (Reset) by
\* losing all three
C28_SessionOfOneRun ==
    /\ [](/\ DOMAIN session \in {{}, SessionKeys}
          /\ DOMAIN session = SessionKeys =>
                Len(session.scene_images) = Len(ScenesOf(session.story_data).v))
    /\ [][session' # session =>
            \/ session' = NoSession /\ pc = "idle"
            \/ /\ session' = [story_data |-> story_data', scene_images |-> scene_images',
                              webtoon_image |-> webtoon_image']
               /\ story_data' = story_data
               /\ scene_images' = scene_images
               /\ pc = "layout"]_vars

C28_Witness ==
    /\ pc = "aborted"
    /\ runs = 2
    /\ DOMAIN session = SessionKeys
    /\ Len(session.scene_images) = 2

\* the prompt of the k-th call of the image endpoint, and the images sent after it
SentPrompt(k) == Head(sent[k])
SentImages(k) == Tail(sent[k])

\* the names of arg.characters that have a readable asset among those of their
\* directory
LoadableNames ==
    {n \in 1..Len(arg.characters.v) :
        /\ HasAssets(arg.characters_dict, arg.characters.v[n])
        /\ \E a \in 1..Len(arg.characters_dict[arg.characters.v[n].v]) :
                arg.characters_dict[arg.characters.v[n].v][a].opens}

\* C22: the prompt of every call of the image endpoint is the
\* character-reference-aware template exactly when one reference image at
\* least was loaded and goes with it, and is the text-only template of
\* create_image_prompt exactly when none was loaded
C22_TemplateByReferences ==
    \A k \in 1..Len(sent) :
        /\ SentPrompt(k).template = "reference" <=> Len(SentImages(k)) > 0
        /\ SentPrompt(k).template = "text_only" <=> Len(SentImages(k)) = 0
        /\ SentImages(k) = reference_images
        /\ Len(SentImages(k)) = 0 =>
                SentPrompt(k) = create_image_prompt(arg.scene_description, arg.characters,
                                                    arg.style, arg.language)
        /\ Len(SentImages(k)) > 0 =>
                /\ LoadableNames # {}
                /\ SentPrompt(k) = ReferencePrompt(arg.scene_description, arg.characters,
                                                   arg.style, arg.language)

C22_Witness ==
    /\ Len(sent) = 1
    /\ prompt.template = "text_only"
    /\ arg.characters = List(<<Str("Fox")>>)
    /\ "Fox" \in DOMAIN arg.characters_dict
    /\ notices = <<[level |-> "warning", attempt |-> 0]>>

\* C23: every prompt sent to the image endpoint, of either template, embeds the
\* scene's visual description, the list of the characters and the art style
\* that was asked for
C23_PromptEmbedsStyle ==
    \A k \in 1..Len(sent) :
        /\ SentPrompt(k).scene_description = arg.scene_description.v
        /\ SentPrompt(k).characters = Join(arg.characters.v)
        /\ SentPrompt(k).art_style = arg.style

\* the language a name or an upper-case code in a prompt stands for
NamedLanguage(text) ==
    IF \E n \in 1..Len(languages) : languages[n][1] = text
    THEN languages[CHOOSE n \in 1..Len(languages) : languages[n][1] = text][2]
    ELSE IF \E c \in LanguageCodes : upper(c) = text
    THEN CHOOSE c \in LanguageCodes : upper(c) = text
    ELSE "unknown"

\* C24: for every language code of the UI, the language that the language
\* instructions of a prompt sent to the image endpoint name is the language
\* that was selected, in both templates
C24_PromptNamesLanguage ==
    \A k \in 1..Len(sent) :
        /\ NamedLanguage(SentPrompt(k).language) = arg.language
        /\ SentPrompt(k).guidance = arg.language

\* C26: across the attempts of one call of generate_scene_image_with_retry the
\* prompt and the reference images stay what they were before the first
\* attempt, an attempt changes nothing of the call but the attempt counter
\* (and what the call has shown and done so far), and every attempt sends the
\* prompt followed by the reference images, in that order
C26_AttemptsSendTheSame ==
    /\ [](\A k \in 1..Len(sent) : sent[k] = <<prompt>> \o reference_images)
    /\ [][pc = "attempt" =>
            /\ prompt' = prompt
            /\ reference_images' = reference_images
            /\ arg' = arg
            /\ client' = client
            /\ sent' = Append(sent, <<prompt>> \o reference_images)
            /\ attempt' \in {attempt, attempt + 1}
            /\ attempt' = attempt + 1 <=> pc' = "attempt"]_vars

C26_Witness ==
    /\ pc = "returned"
    /\ Len(sent) = 3
    /\ Len(reference_images) = 2
    /\ ret.out.value = Placeholder

\* C29: while the generator has no client no endpoint is called: the story
\* requester returns None without a text request, the scene-image requester
\* returns None after no attempt and no delay, and main() never shows the
\* form from which a generation is started
C29_NoCallWithoutClient ==
    ~client =>
        /\ text_calls = 0
        /\ sent = <<>>
        /\ events = <<>>
        /\ attempt = 0
        /\ pc \in {"start", "stopped", "story_returned", "returned"}
        /\ pc = "story_returned" => story_data = Null
        /\ pc = "returned" => ret = RequesterReturns(NoImage)

C29_Witness ==
    /\ ~client
    /\ pc = "returned"
    /\ ret.done
    /\ ~ImagePresent(ret.out.value)

\* C30: no exception escapes generate_scene_image_with_retry, whatever the
\* elements of the characters list of a validated scene: with a client the
\* call returns an image, the placeholder if need be
C30_NoExceptionEscapes ==
    /\ pc # "raised"
    /\ ret.done => (~ret.out.raised /\ (client => ImagePresent(ret.out.value)))

\* C21: in the webtoon create_webtoon_layout of the basic app returns, every
\* panel starts at or below title_height, so that none lies over the title
\* band, and every panel lies inside the canvas
C21_PanelsBelowTitle ==
    webtoon_image.kind = "canvas" =>
        \A n \in 1..Len(webtoon_image.panels) :
            LET p == webtoon_image.panels[n] IN
            /\ p.y >= title_height
            /\ p.x >= 0
            /\ p.x + p.width <= webtoon_image.width
            /\ p.y + p.height <= webtoon_image.height

\* C27: when main() of the basic app calls create_webtoon_layout, no slot of
\* the image sequence is None: a failed scene has a placeholder in its slot
C27_NoMissingSlot ==
    pc = "layout" => \A n \in 1..Len(scene_images) : ImagePresent(scene_images[n])

====
